---- MODULE Spec2Model ----
(***************************************************************************)
(* Model of src/supabase.js: updateSearchCount(searchTerm, movie), the     *)
(* read-then-write "upsert by search term" against the shared metrics      *)
(* table.  Every invocation is a process that suspends at each await; the  *)
(* table is the state shared by all invocations.                           *)
(***************************************************************************)
EXTENDS Naturals, Sequences, FiniteSets, TLC

(* ------------------------------ bounds --------------------------------- *)

\* number of call sites (tabs, rapid searches) that can have an invocation in flight
NumProcs == 2

\* total number of invocations started in one behaviour
MaxInvocations == 3

Procs == 1..NumProcs

\* the search strings the callers pass
Terms == {"batman", "dune"}

(* ----------------------- JavaScript values ----------------------------- *)

\* movie.poster_path as TMDB delivers it: a string, null, or a missing key
JsStr(s) == [t |-> "string", v |-> s]
JsNull == [t |-> "null", v |-> ""]
JsUndefined == [t |-> "undefined", v |-> ""]

\* the movie objects the callers pass: the first result of the search for the
\* term, which can differ from one search to the next
Results(searchTerm) ==
    IF searchTerm = "batman"
    THEN { [id |-> 1, poster_path |-> JsStr("/abc123.jpg")],
           [id |-> 2, poster_path |-> JsNull] }
    ELSE { [id |-> 3, poster_path |-> JsUndefined],
           [id |-> 4, poster_path |-> JsStr("")] }

\* variant: a missing path renders as the empty string
TemplateStringBlank(x) == IF x.t = "string" THEN x.v ELSE ""

\* what a template literal `${x}` renders for x
TemplateString(x) ==
    CASE x.t = "string"    -> x.v
      [] x.t = "null"      -> "null"
      [] x.t = "undefined" -> "undefined"

ImagePrefix == "https://image.tmdb.org/t/p/w500"

\* variant: a path separator is put between the prefix and the path
PosterUrlSlash(movie) ==
    ImagePrefix \o "/" \o TemplateString(movie.poster_path)

\* `https://image.tmdb.org/t/p/w500${movie.poster_path}`
PosterUrl(movie) == ImagePrefix \o TemplateString(movie.poster_path)

(* ------------------------------ state ---------------------------------- *)

VARIABLES
    table,      \* the rows of the metrics table, in insertion order
    pc,         \* where each invocation is: idle, select, update, insert, done
    args,       \* the (searchTerm, movie) of each invocation
    rec,        \* existingRecords[0] as read by the lookup
    calls,      \* the remote calls the invocation has issued, in order
    result,     \* what the caller's promise is: pending, undefined, rejected
    logged,     \* whether the catch block ran (console.error)
    snap,       \* the table when the invocation started
    alone,      \* no other invocation was in flight during this one
    started,    \* number of invocations started so far
    finished,   \* per term, number of invocations completed
    errored,    \* which remote call of the invocation returned an error, or none
    written,    \* per term, number of invocations whose write was applied
    overlapped, \* the terms of the other invocations in flight during this one
    anyError    \* some remote call has returned an error

vars == <<table, pc, args, rec, calls, result, logged, snap, alone,
          started, finished, errored, written, overlapped, anyError>>

NoRecord == [id |-> 0, searchTerm |-> "", count |-> 0, movie_id |-> 0,
             poster_url |-> ""]

NoArgs == [term |-> "", movie |-> [id |-> 0, poster_path |-> JsUndefined]]

Active == {"select", "update", "insert"}

(* ------------------------ the storage backend -------------------------- *)

\* .select('*').eq('searchTerm', searchTerm): the positions of the matching rows
Matching(t, term) == {i \in 1..Len(t) : t[i].searchTerm = term}

\* variant: the lookup is sent without its .eq('searchTerm', ...) filter
SelectRowsAnyTerm(t, term) ==
    IF t = <<>> THEN {<<>>} ELSE {<<t[i]>> : i \in 1..Len(t)}

\* .limit(1) with no ordering: any one matching row, or no row
SelectRows(t, term) ==
    IF Matching(t, term) = {} THEN {<<>>}
    ELSE {<<t[i]>> : i \in Matching(t, term)}

\* the { data, error } a lookup can come back with
SelectResponses(t, term) ==
    {[isNull |-> FALSE, data |-> d, error |-> FALSE] : d \in SelectRows(t, term)}
    \cup {[isNull |-> TRUE, data |-> <<>>, error |-> TRUE]}

\* the { error } a write can come back with
WriteResponses == {[error |-> FALSE], [error |-> TRUE]}

\* id uuid primary key default gen_random_uuid(): a fresh id per stored row
NewId(t) == Len(t) + 1

\* variant: the backend increments the stored count (an atomic increment)
ApplyUpdateAtomic(t, id, payload) ==
    [i \in 1..Len(t) |->
        IF t[i].id = id THEN [t[i] EXCEPT !.count = @ + 1] ELSE t[i]]

\* variant: the update is sent without its .eq('id', ...) filter
ApplyUpdateAllRows(t, id, payload) ==
    [i \in 1..Len(t) |-> [t[i] EXCEPT !.count = payload.count]]

\* variant: the update is filtered by the row's searchTerm instead of its id
ApplyUpdateByTerm(t, id, payload) ==
    [i \in 1..Len(t) |->
        IF \E j \in 1..Len(t) : t[j].id = id /\ t[j].searchTerm = t[i].searchTerm
        THEN [t[i] EXCEPT !.count = payload.count] ELSE t[i]]

\* .update(payload).eq('id', id): every row with that id takes the payload
ApplyUpdate(t, id, payload) ==
    [i \in 1..Len(t) |->
        IF t[i].id = id THEN [t[i] EXCEPT !.count = payload.count] ELSE t[i]]

\* variant: searchTerm is unique and a conflicting insert stores nothing
ApplyInsertUnique(t, row) ==
    IF \E i \in 1..Len(t) : t[i].searchTerm = row.searchTerm THEN t
    ELSE Append(t, [id |-> Len(t) + 1, searchTerm |-> row.searchTerm,
                    count |-> row.count, movie_id |-> row.movie_id,
                    poster_url |-> row.poster_url])

\* .insert([row]): the row is stored with a generated id
ApplyInsert(t, row) ==
    Append(t, [id |-> NewId(t), searchTerm |-> row.searchTerm,
               count |-> row.count, movie_id |-> row.movie_id,
               poster_url |-> row.poster_url])

(* --------------------- updateSearchCount, piecewise -------------------- *)

\* variant: the lookup's error is not looked at
SelectThrowsNever(resp) == FALSE

\* if (selectError) throw selectError
SelectThrows(resp) == resp.error

\* variant: the length test is off by one
RecordExistsOffByOne(resp) == ~resp.isNull /\ Len(resp.data) > 1

\* if (existingRecords && existingRecords.length > 0)
RecordExists(resp) == ~resp.isNull /\ Len(resp.data) > 0

\* variant: the increment is applied twice
UpdatePayloadTwice(record) == [count |-> record.count + 2]

\* variant: the count is written back without the increment
UpdatePayloadSame(record) == [count |-> record.count]

\* .update({ count: record.count + 1 })
UpdatePayload(record) == [count |-> record.count + 1]

\* .eq('id', record.id)
UpdateTarget(record) == record.id

\* variant: the new row starts counting at 0
InsertPayloadZero(searchTerm, movie) ==
    [searchTerm |-> searchTerm, count |-> 0, movie_id |-> movie.id,
     poster_url |-> PosterUrl(movie)]

\* variant: the row is written with the poster only, the movie id left at 0
InsertPayloadNoMovie(searchTerm, movie) ==
    [searchTerm |-> searchTerm, count |-> 1, movie_id |-> 0,
     poster_url |-> PosterUrl(movie)]

\* .insert([{ searchTerm, count: 1, movie_id: movie.id, poster_url: ... }])
InsertPayload(searchTerm, movie) ==
    [searchTerm |-> searchTerm, count |-> 1, movie_id |-> movie.id,
     poster_url |-> PosterUrl(movie)]

\* if (updateError) throw updateError / if (insertError) throw insertError
WriteThrows(resp) == resp.error

\* variant: the catch block logs and rethrows
CatchResultRethrow == [result |-> "rejected", logged |-> TRUE]

\* catch (error) { console.error(...) }: the promise still fulfils with undefined
CatchResult == [result |-> "undefined", logged |-> TRUE]

\* falling off the end of the try block
NormalResult == [result |-> "undefined", logged |-> FALSE]

(* ----------------------------- actions --------------------------------- *)

Init ==
    /\ table = <<>>
    /\ pc = [p \in Procs |-> "idle"]
    /\ args = [p \in Procs |-> NoArgs]
    /\ rec = [p \in Procs |-> NoRecord]
    /\ calls = [p \in Procs |-> <<>>]
    /\ result = [p \in Procs |-> "pending"]
    /\ logged = [p \in Procs |-> FALSE]
    /\ snap = [p \in Procs |-> <<>>]
    /\ alone = [p \in Procs |-> TRUE]
    /\ started = 0
    /\ finished = [t \in Terms |-> 0]
    /\ errored = [p \in Procs |-> "none"]
    /\ written = [t \in Terms |-> 0]
    /\ overlapped = [p \in Procs |-> {}]
    /\ anyError = FALSE

Idle(p) == pc[p] \in {"idle", "done"}

\* the call updateSearchCount(searchTerm, movie) up to the first await:
\* the lookup request is issued
Begin(p, searchTerm, movie) ==
    /\ Idle(p)
    /\ started < MaxInvocations
    /\ pc' = [pc EXCEPT ![p] = "select"]
    /\ args' = [args EXCEPT ![p] = [term |-> searchTerm, movie |-> movie]]
    /\ rec' = [rec EXCEPT ![p] = NoRecord]
    /\ calls' = [calls EXCEPT ![p] = <<"select">>]
    /\ result' = [result EXCEPT ![p] = "pending"]
    /\ logged' = [logged EXCEPT ![p] = FALSE]
    /\ snap' = [snap EXCEPT ![p] = table]
    /\ alone' = [q \in Procs |->
                    IF q = p THEN \A r \in Procs \ {p} : Idle(r)
                    ELSE IF Idle(q) THEN alone[q] ELSE FALSE]
    /\ errored' = [errored EXCEPT ![p] = "none"]
    /\ overlapped' = [q \in Procs |->
                        IF q = p
                        THEN {args[r].term : r \in {r \in Procs \ {p} : ~Idle(r)}}
                        ELSE IF Idle(q) THEN overlapped[q]
                        ELSE overlapped[q] \cup {searchTerm}]
    /\ started' = started + 1
    /\ UNCHANGED <<table, finished, written, anyError>>

\* the invocation settles: the caller's promise and the log
Settle(p, how) ==
    /\ pc' = [pc EXCEPT ![p] = "done"]
    /\ result' = [result EXCEPT ![p] = how.result]
    /\ logged' = [logged EXCEPT ![p] = how.logged]
    /\ finished' = [finished EXCEPT ![args[p].term] = @ + 1]

\* an invocation may overlap others
Invoke(p) ==
    \E searchTerm \in Terms :
        \E movie \in Results(searchTerm) : Begin(p, searchTerm, movie)

\* an invocation starts only when no other one is in flight
InvokeAlone(p) ==
    /\ \A q \in Procs : Idle(q)
    /\ \E searchTerm \in Terms :
        \E movie \in Results(searchTerm) : Begin(p, searchTerm, movie)

\* the lookup returns and the function runs on to its next await or its end
LookupReturns(p) ==
    /\ pc[p] = "select"
    /\ \E resp \in SelectResponses(table, args[p].term) :
        /\ anyError' = (anyError \/ resp.error)
        /\ errored' = [errored EXCEPT ![p] = IF resp.error THEN "select" ELSE @]
        /\ IF SelectThrows(resp)
           THEN /\ Settle(p, CatchResult)
                /\ UNCHANGED <<rec, calls>>
           ELSE IF RecordExists(resp)
           THEN /\ rec' = [rec EXCEPT ![p] = resp.data[1]]
                /\ calls' = [calls EXCEPT ![p] = Append(@, "update")]
                /\ pc' = [pc EXCEPT ![p] = "update"]
                /\ UNCHANGED <<result, logged, finished>>
           ELSE /\ calls' = [calls EXCEPT ![p] = Append(@, "insert")]
                /\ pc' = [pc EXCEPT ![p] = "insert"]
                /\ UNCHANGED <<rec, result, logged, finished>>
    /\ UNCHANGED <<table, args, snap, alone, started, written, overlapped>>

\* variant: a failed update is issued again instead of being thrown
UpdateReturnsRetry(p) ==
    /\ pc[p] = "update"
    /\ \E resp \in WriteResponses :
        /\ anyError' = (anyError \/ resp.error)
        /\ errored' = [errored EXCEPT ![p] = IF resp.error THEN "update" ELSE "none"]
        /\ table' = IF resp.error THEN table
                    ELSE ApplyUpdate(table, UpdateTarget(rec[p]),
                                     UpdatePayload(rec[p]))
        /\ written' = IF resp.error THEN written
                      ELSE [written EXCEPT ![args[p].term] = @ + 1]
        /\ IF resp.error
           THEN /\ calls' = [calls EXCEPT ![p] = Append(@, "update")]
                /\ UNCHANGED <<pc, result, logged, finished>>
           ELSE /\ Settle(p, NormalResult)
                /\ UNCHANGED calls
    /\ UNCHANGED <<args, rec, snap, alone, started, overlapped>>

\* the update returns
UpdateReturns(p) ==
    /\ pc[p] = "update"
    /\ \E resp \in WriteResponses :
        /\ anyError' = (anyError \/ resp.error)
        /\ errored' = [errored EXCEPT ![p] = IF resp.error THEN "update" ELSE @]
        /\ table' = IF resp.error THEN table
                    ELSE ApplyUpdate(table, UpdateTarget(rec[p]),
                                     UpdatePayload(rec[p]))
        /\ written' = IF resp.error THEN written
                      ELSE [written EXCEPT ![args[p].term] = @ + 1]
        /\ IF WriteThrows(resp)
           THEN Settle(p, CatchResult)
           ELSE Settle(p, NormalResult)
    /\ UNCHANGED <<args, rec, calls, snap, alone, started, overlapped>>

\* the insert returns
InsertReturns(p) ==
    /\ pc[p] = "insert"
    /\ \E resp \in WriteResponses :
        /\ anyError' = (anyError \/ resp.error)
        /\ errored' = [errored EXCEPT ![p] = IF resp.error THEN "insert" ELSE @]
        /\ table' = IF resp.error THEN table
                    ELSE ApplyInsert(table,
                                     InsertPayload(args[p].term, args[p].movie))
        /\ written' = IF resp.error THEN written
                      ELSE [written EXCEPT ![args[p].term] = @ + 1]
        /\ IF WriteThrows(resp)
           THEN Settle(p, CatchResult)
           ELSE Settle(p, NormalResult)
    /\ UNCHANGED <<args, rec, calls, snap, alone, started, overlapped>>

Next ==
    \E p \in Procs :
        \/ Invoke(p)
        \/ LookupReturns(p)
        \/ UpdateReturns(p)
        \/ InsertReturns(p)

Spec == Init /\ [][Next]_vars

\* invocations one after the other: each completes before the next starts
NextSeq ==
    \E p \in Procs :
        \/ InvokeAlone(p)
        \/ LookupReturns(p)
        \/ UpdateReturns(p)
        \/ InsertReturns(p)

SpecSeq == Init /\ [][NextSeq]_vars

\* every remote call that was issued eventually returns, with data or an error
CallsReturn ==
    \A p \in Procs :
        /\ WF_vars(LookupReturns(p))
        /\ WF_vars(UpdateReturns(p))
        /\ WF_vars(InsertReturns(p))

SpecFair == Init /\ [][Next]_vars /\ CallsReturn

\* the table after one invocation for "batman" has completed: the state an
\* app instance finds when the term has been searched once before
SeededTable ==
    ApplyInsert(<<>>, InsertPayload("batman",
                                    [id |-> 1, poster_path |-> JsStr("/abc123.jpg")]))

InitSeeded ==
    /\ table = SeededTable
    /\ pc = [p \in Procs |-> "idle"]
    /\ args = [p \in Procs |-> NoArgs]
    /\ rec = [p \in Procs |-> NoRecord]
    /\ calls = [p \in Procs |-> <<>>]
    /\ result = [p \in Procs |-> "pending"]
    /\ logged = [p \in Procs |-> FALSE]
    /\ snap = [p \in Procs |-> <<>>]
    /\ alone = [p \in Procs |-> TRUE]
    /\ started = 0
    /\ finished = [t \in Terms |-> IF t = "batman" THEN 1 ELSE 0]
    /\ errored = [p \in Procs |-> "none"]
    /\ written = [t \in Terms |-> IF t = "batman" THEN 1 ELSE 0]
    /\ overlapped = [p \in Procs |-> {}]
    /\ anyError = FALSE

\* overlapping invocations against a table that already holds a row
SpecSeeded == InitSeeded /\ [][Next]_vars

TypeOK ==
    /\ pc \in [Procs -> {"idle", "done"} \cup Active]
    /\ result \in [Procs -> {"pending", "undefined", "rejected"}]
    /\ started \in 0..MaxInvocations
    /\ \A i \in 1..Len(table) : table[i].id = i

(* ------------------------------ claims --------------------------------- *)

\* the step in which invocation p completes
Completes(p) == pc[p] \in Active /\ pc'[p] = "done"

\* the rows of t2 at the positions of t are the rows of t, except at position i
SameExcept(t, t2, i) ==
    \A j \in 1..Len(t) : j # i => t2[j] = t[j]

\* C1: an invocation for a term with no row, running alone with every remote
\* call succeeding, ends with the table it started from plus exactly one row:
\* that term, count 1, the movie's id and the poster URL built from the
\* movie's poster path; no other row is created or changed.
C1_NewTermInsertsOneRow ==
    [][\A p \in Procs :
        ( /\ Completes(p)
          /\ alone[p]
          /\ errored'[p] = "none"
          /\ Matching(snap[p], args[p].term) = {} )
        => /\ Len(table') = Len(snap[p]) + 1
           /\ SameExcept(snap[p], table', 0)
           /\ table'[Len(table')].searchTerm = args[p].term
           /\ table'[Len(table')].count = 1
           /\ table'[Len(table')].movie_id = args[p].movie.id
           /\ table'[Len(table')].poster_url =
                  ImagePrefix \o TemplateString(args[p].movie.poster_path)
           /\ Cardinality(Matching(table', args[p].term)) = 1]_vars

C1_Witness ==
    \E p \in Procs :
        /\ pc[p] = "done" /\ alone[p] /\ errored[p] = "none"
        /\ Matching(snap[p], args[p].term) = {}
        /\ Len(snap[p]) = 1
        /\ calls[p] = <<"select", "insert">>
        /\ Len(table) = 2
        /\ table[2].searchTerm = args[p].term
        /\ table[2].count = 1
        /\ table[2].movie_id = args[p].movie.id

\* C2: an invocation for a term that has a row with count N, running alone
\* with every remote call succeeding, ends with that same row (same id)
\* having count N + 1, every other row as it was, and no new row.
C2_ExistingTermIncrements ==
    [][\A p \in Procs :
        ( /\ Completes(p)
          /\ alone[p]
          /\ errored'[p] = "none"
          /\ Matching(snap[p], args[p].term) # {} )
        => /\ Len(table') = Len(snap[p])
           /\ \E i \in Matching(snap[p], args[p].term) :
                /\ table'[i].id = snap[p][i].id
                /\ table'[i] = [snap[p][i] EXCEPT !.count = @ + 1]
                /\ SameExcept(snap[p], table', i)]_vars

C2_Witness ==
    \E p \in Procs :
        /\ pc[p] = "done" /\ alone[p] /\ errored[p] = "none"
        /\ calls[p] = <<"select", "update">>
        /\ Len(snap[p]) = 2 /\ Len(table) = 2
        /\ \E i \in Matching(snap[p], args[p].term) :
            /\ snap[p][i].count = 1
            /\ table[i].count = 2
            /\ table[i].id = snap[p][i].id

\* C3: when the lookup returns an error, the invocation issues no update and
\* no insert, leaves the table exactly as it was, and completes with its
\* promise fulfilled (nothing is raised to the caller).
C3_LookupErrorNoWrite ==
    [][\A p \in Procs :
        (pc[p] = "select" /\ errored'[p] = "select")
        => /\ table' = table
           /\ pc'[p] = "done"
           /\ calls'[p] = <<"select">>
           /\ result'[p] = "undefined"]_vars

C3_Witness ==
    \E p \in Procs :
        /\ pc[p] = "done" /\ errored[p] = "select"
        /\ calls[p] = <<"select">>
        /\ result[p] = "undefined" /\ logged[p]
        /\ table = snap[p]
        /\ Len(table) > 0

\* C4: whichever remote call fails, the invocation completes normally: the
\* caller's promise is never rejected, and a completed invocation has
\* fulfilled it with undefined, in the failure cases as in the success case.
C4_NoErrorPropagates ==
    \A p \in Procs :
        /\ result[p] # "rejected"
        /\ pc[p] = "done" => result[p] = "undefined"
        /\ pc[p] \in Active => result[p] = "pending"

C4_Witness ==
    \E p, q \in Procs :
        /\ pc[p] = "done" /\ errored[p] = "insert" /\ result[p] = "undefined"
        /\ pc[q] = "done" /\ errored[q] = "update" /\ result[q] = "undefined"

\* C5 (as stated): every completed invocation has issued one read followed by
\* exactly one write, an update or an insert.
C5_AlwaysOneWrite ==
    \A p \in Procs :
        pc[p] = "done" =>
            calls[p] \in {<<"select", "update">>, <<"select", "insert">>}

\* C5 (amended): every invocation issues the read first and at most one write
\* after it; when the read returns without error exactly one write (an update
\* or an insert, never both) is issued, and when the read fails none is.
C5_ReadThenAtMostOneWrite ==
    \A p \in Procs :
        /\ pc[p] # "idle" => (Len(calls[p]) \in {1, 2} /\ calls[p][1] = "select")
        /\ pc[p] = "select" => calls[p] = <<"select">>
        /\ pc[p] = "update" => calls[p] = <<"select", "update">>
        /\ pc[p] = "insert" => calls[p] = <<"select", "insert">>
        /\ pc[p] = "done" =>
              IF errored[p] = "select"
              THEN calls[p] = <<"select">>
              ELSE calls[p] \in {<<"select", "update">>, <<"select", "insert">>}

C5_Witness ==
    \E p, q \in Procs :
        /\ pc[p] = "done" /\ errored[p] = "select" /\ calls[p] = <<"select">>
        /\ pc[q] = "done" /\ errored[q] = "none"
        /\ calls[q] = <<"select", "update">>

\* C6: the insert branch does not look at the table again: an invocation
\* whose lookup found no row still adds a row when, by the time its insert is
\* applied, an overlapping invocation has stored a row for the same term, so
\* the term then has more than one row.
C6_InsertAfterStaleLookup ==
    [][\A p \in Procs :
        ( /\ pc[p] = "insert"
          /\ pc'[p] = "done"
          /\ errored'[p] = "none"
          /\ Matching(table, args[p].term) # {} )
        => /\ Len(table') = Len(table) + 1
           /\ table'[Len(table')].searchTerm = args[p].term
           /\ Cardinality(Matching(table', args[p].term)) >= 2]_vars

\* two overlapping invocations for the same brand-new term both inserted
C6_Witness ==
    \E p, q \in Procs :
        /\ p # q
        /\ args[p].term = args[q].term
        /\ pc[p] = "done" /\ pc[q] = "done"
        /\ errored[p] = "none" /\ errored[q] = "none"
        /\ calls[p] = <<"select", "insert">>
        /\ calls[q] = <<"select", "insert">>
        /\ snap[p] = <<>> /\ snap[q] = <<>>
        /\ Len(table) = 2
        /\ table[1].searchTerm = args[p].term
        /\ table[2].searchTerm = args[p].term

\* C7: the update writes the count that was read plus one, whatever the row
\* holds by then: an invocation that read count N stores N + 1 even when an
\* overlapping invocation has already raised the row to N + 1, so two
\* successful invocations can raise the count by one only.
C7_UpdateWritesStaleCountPlusOne ==
    [][\A p \in Procs :
        ( /\ pc[p] = "update"
          /\ pc'[p] = "done"
          /\ errored'[p] = "none" )
        => \A i \in 1..Len(table) :
              table[i].id = rec[p].id => table'[i].count = rec[p].count + 1]_vars

\* two overlapping invocations both read N = 1 and both wrote 2
C7_Witness ==
    \E p, q \in Procs :
        /\ p # q
        /\ pc[p] = "done" /\ pc[q] = "done"
        /\ errored[p] = "none" /\ errored[q] = "none"
        /\ calls[p] = <<"select", "update">>
        /\ calls[q] = <<"select", "update">>
        /\ rec[p] = rec[q]
        /\ rec[p].count = 1
        /\ snap[p] = snap[q]
        /\ \E i \in 1..Len(table) :
              table[i].id = rec[p].id /\ table[i].count = 2

MissingPath(p) == args[p].movie.poster_path.t \in {"null", "undefined"}

\* C8: with movie.poster_path null or absent and no row for the term, the
\* invocation does not throw: the lookup's return leads to the insert being
\* issued, and the row stored has the prefix followed by the text "null" or
\* "undefined"; the caller's promise is fulfilled.
C8_MissingPosterPathStillInserts ==
    [][\A p \in Procs :
        /\ ( /\ pc[p] = "select"
             /\ pc'[p] # "select"
             /\ MissingPath(p)
             /\ errored'[p] = "none"
             /\ Matching(table, args[p].term) = {} )
           => /\ pc'[p] = "insert"
              /\ calls'[p] = <<"select", "insert">>
              /\ result'[p] = "pending"
        /\ ( /\ pc[p] = "insert"
             /\ MissingPath(p)
             /\ errored'[p] = "none"
             /\ pc'[p] = "done" )
           => /\ result'[p] = "undefined"
              /\ ~logged'[p]
              /\ Len(table') = Len(table) + 1
              /\ table'[Len(table')].poster_url =
                    IF args[p].movie.poster_path.t = "null"
                    THEN "https://image.tmdb.org/t/p/w500null"
                    ELSE "https://image.tmdb.org/t/p/w500undefined"]_vars

C8_Witness ==
    \E p, q \in Procs :
        /\ pc[p] = "done" /\ errored[p] = "none"
        /\ args[p].movie.poster_path.t = "null"
        /\ calls[p] = <<"select", "insert">>
        /\ pc[q] = "done" /\ errored[q] = "none"
        /\ args[q].movie.poster_path.t = "undefined"
        /\ calls[q] = <<"select", "insert">>
        /\ Len(table) = 2
        /\ {table[1].poster_url, table[2].poster_url} =
              {"https://image.tmdb.org/t/p/w500null",
               "https://image.tmdb.org/t/p/w500undefined"}

\* C9: the poster URL the insert stores is the prefix
\* https://image.tmdb.org/t/p/w500 followed by the poster path exactly as
\* given: "/abc123.jpg" gives https://image.tmdb.org/t/p/w500/abc123.jpg and
\* the empty path gives the bare prefix.
C9_PosterUrlIsPrefixThenPath ==
    [][\A p \in Procs :
        ( /\ pc[p] = "insert"
          /\ pc'[p] = "done"
          /\ errored'[p] = "none"
          /\ args[p].movie.poster_path.t = "string" )
        => /\ Len(table') = Len(table) + 1
           /\ table'[Len(table')].poster_url =
                 "https://image.tmdb.org/t/p/w500" \o args[p].movie.poster_path.v
           /\ args[p].movie.poster_path.v = "/abc123.jpg"
                 => table'[Len(table')].poster_url =
                       "https://image.tmdb.org/t/p/w500/abc123.jpg"]_vars

C9_Witness ==
    /\ Len(table) = 2
    /\ table[1].poster_url = "https://image.tmdb.org/t/p/w500/abc123.jpg"
    /\ table[2].poster_url = "https://image.tmdb.org/t/p/w500"
    /\ \E p \in Procs :
          /\ pc[p] = "done" /\ errored[p] = "none"
          /\ calls[p] = <<"select", "insert">>
          /\ args[p].movie.poster_path = JsStr("")

\* C10: when invocations do not overlap and no remote call has failed, every
\* term has at most one row, a term has a row exactly when an invocation for
\* it has completed, and after k completed invocations for a term its row's
\* count is k.
C10_SequentialCountsInvocations ==
    ~anyError =>
        \A t \in Terms :
            /\ Cardinality(Matching(table, t)) <= 1
            /\ finished[t] = 0 <=> Matching(table, t) = {}
            /\ \A i \in Matching(table, t) : table[i].count = finished[t]

C10_Witness ==
    /\ ~anyError
    /\ \A p \in Procs : Idle(p)
    /\ finished["batman"] = 2
    /\ finished["dune"] = 1
    /\ \E i \in Matching(table, "batman") : table[i].count = 2
    /\ \E i \in Matching(table, "dune") : table[i].count = 1

\* C11 (as stated): a stored row's count never decreases: in every step of
\* every interleaving, each row's count after the step is at least its count
\* before the step.
C11_CountNeverDecreases ==
    [][\A i \in 1..Len(table) :
          i <= Len(table') /\ table'[i].count >= table[i].count]_vars

\* C12: no step deletes a row or changes the id, searchTerm, movie id or
\* poster URL of a stored row; the update changes nothing but the count of the
\* row whose id the lookup returned, also when the movie passed in is not the
\* one stored, and leaves every other row as it was.
C12_UpdateTouchesOnlyCount ==
    [][/\ Len(table') >= Len(table)
       /\ \A i \in 1..Len(table) :
             /\ table'[i].id = table[i].id
             /\ table'[i].searchTerm = table[i].searchTerm
             /\ table'[i].movie_id = table[i].movie_id
             /\ table'[i].poster_url = table[i].poster_url
       /\ \A p \in Procs :
             (pc[p] = "update" /\ pc'[p] = "done")
             => /\ Len(table') = Len(table)
                /\ \A i \in 1..Len(table) :
                      table[i].id # rec[p].id => table'[i] = table[i]]_vars

\* an update for a movie other than the stored one, with another row present
C12_Witness ==
    \E p \in Procs :
        /\ pc[p] = "done" /\ errored[p] = "none"
        /\ calls[p] = <<"select", "update">>
        /\ Len(table) = 2
        /\ \E i \in 1..Len(table) :
              /\ table[i].id = rec[p].id
              /\ table[i].movie_id # args[p].movie.id
              /\ table[i].count = rec[p].count + 1
              /\ table[i].poster_url # PosterUrl(args[p].movie)
        /\ \E j \in 1..Len(table) : table[j].searchTerm # args[p].term

\* C13: provided every remote call eventually returns, every invocation that
\* was started eventually completes; it issues at most two remote calls, the
\* lookup and then one write, issues no call after one has failed, and every
\* return of a call either issues the one write or completes the invocation.
C13_EveryInvocationCompletes ==
    /\ \A p \in Procs : (pc[p] \in Active) ~> (pc[p] = "done")
    /\ [](\A p \in Procs :
            /\ Len(calls[p]) <= 2
            /\ errored[p] # "none" => pc[p] = "done")
    /\ [][\A p \in Procs :
            /\ (pc[p] = "select" /\ pc'[p] # "select")
               => pc'[p] \in {"update", "insert", "done"}
            /\ (pc[p] \in {"update", "insert"} /\ pc'[p] # pc[p])
               => pc'[p] = "done"
            /\ (pc[p] \in Active /\ errored'[p] # "none")
               => (pc'[p] = "done" /\ calls'[p] = calls[p])]_vars

\* an invocation has completed after its second call failed, without a third
C13_Witness ==
    \E p \in Procs :
        /\ pc[p] = "done"
        /\ errored[p] = "update"
        /\ calls[p] = <<"select", "update">>
        /\ logged[p]
        /\ \E q \in Procs \ {p} : pc[q] = "done" /\ errored[q] = "select"

\* the sum of the counts of the rows of t stored for term
RECURSIVE SumCounts(_, _)
SumCounts(t, term) ==
    IF t = <<>> THEN 0
    ELSE (IF Head(t).searchTerm = term THEN Head(t).count ELSE 0)
         + SumCounts(Tail(t), term)

\* C14: starting from the empty table, in every reachable state and for every
\* term, the counts of all the rows stored for the term add up to at most the
\* number of invocations for the term whose write has been applied.
C14_NoOvercounting ==
    \A t \in Terms : SumCounts(table, t) <= written[t]

\* three writes for a term were applied, one of them from a stale read, and
\* the counts add up to two
C14_Witness ==
    \E t \in Terms :
        /\ written[t] = 3
        /\ SumCounts(table, t) = 2
        /\ \A p \in Procs : pc[p] = "done" /\ args[p].term = t

Duplicated(t, term) == Cardinality(Matching(t, term)) >= 2

\* C15: when the table holds several rows for a term, an invocation for the
\* term whose calls succeed takes the update branch with one of those rows
\* (the one the limit-1 lookup returned), inserts nothing, and its update
\* stores the count read plus one in that row only: the other duplicates stay
\* as they are and the term keeps all its rows.
C15_DuplicatesUpdateOneRow ==
    [][\A p \in Procs :
        /\ ( /\ pc[p] = "select"
             /\ pc'[p] # "select"
             /\ errored'[p] = "none"
             /\ Duplicated(table, args[p].term) )
           => /\ pc'[p] = "update"
              /\ calls'[p] = <<"select", "update">>
              /\ \E i \in Matching(table, args[p].term) : rec'[p] = table[i]
              /\ table' = table
        /\ ( /\ pc[p] = "update"
             /\ pc'[p] = "done"
             /\ errored'[p] = "none"
             /\ Duplicated(table, args[p].term) )
           => /\ Len(table') = Len(table)
              /\ Matching(table', args[p].term) = Matching(table, args[p].term)
              /\ \E i \in Matching(table, args[p].term) :
                    /\ table[i].id = rec[p].id
                    /\ table'[i] = [table[i] EXCEPT !.count = rec[p].count + 1]
                    /\ alone[p] => table'[i].count = table[i].count + 1
                    /\ SameExcept(table, table', i)]_vars

\* after the insert race, a later invocation has incremented one duplicate
C15_Witness ==
    \E p \in Procs :
        /\ pc[p] = "done" /\ errored[p] = "none" /\ alone[p]
        /\ calls[p] = <<"select", "update">>
        /\ Duplicated(snap[p], args[p].term)
        /\ Matching(table, args[p].term) = {1, 2}
        /\ {table[1].count, table[2].count} = {1, 2}

\* C16: every stored row has count >= 1 in every reachable state, whatever
\* the interleaving and whichever calls fail; so has every row a lookup has
\* returned and an update is about to be computed from.
C16_CountAtLeastOne ==
    /\ \A i \in 1..Len(table) : table[i].count >= 1
    /\ \A p \in Procs : pc[p] = "update" => rec[p].count >= 1

\* a row raised to 2 and left there by a failed update
C16_Witness ==
    /\ anyError
    /\ Len(table) = 1
    /\ table[1].count = 2
    /\ \E p \in Procs :
          /\ pc[p] = "done" /\ errored[p] = "update"
          /\ rec[p] = table[1]

HasTerm(term, row) == row.searchTerm = term

\* the rows of t stored for term, in order, without their generated ids
RowsOf(t, term) ==
    LET sel == SelectSeq(t, LAMBDA row : HasTerm(term, row))
    IN  [i \in 1..Len(sel) |->
            [count |-> sel[i].count, movie_id |-> sel[i].movie_id,
             poster_url |-> sel[i].poster_url]]

\* what an invocation of p running by itself leaves of rows, the rows of its term
RunsAsIfAlone(p, rows, after, failed) ==
    IF failed THEN after = rows
    ELSE IF rows = <<>>
    THEN after = <<[count |-> 1, movie_id |-> args[p].movie.id,
                    poster_url |-> ImagePrefix
                                   \o TemplateString(args[p].movie.poster_path)]>>
    ELSE /\ Len(after) = Len(rows)
         /\ \E i \in 1..Len(rows) :
               /\ after[i] = [rows[i] EXCEPT !.count = @ + 1]
               /\ \A j \in 1..Len(rows) : j # i => after[j] = rows[j]

\* C17: invocations for distinct terms do not interfere: no step of an
\* invocation changes the rows of another term, and an invocation overlapped
\* only by invocations for other terms leaves the rows of its own term (ids
\* aside) exactly as it would running by itself from the table it started on,
\* so every interleaving ends as running them one after the other does.
C17_DistinctTermsDoNotInterfere ==
    [][\A p \in Procs :
        /\ pc'[p] # pc[p]
           => \A t \in Terms \ {args'[p].term} :
                 RowsOf(table', t) = RowsOf(table, t)
        /\ (Completes(p) /\ args[p].term \notin overlapped[p])
           => RunsAsIfAlone(p, RowsOf(snap[p], args[p].term),
                            RowsOf(table', args[p].term),
                            errored'[p] # "none")]_vars

\* an update for one term and an insert for another have overlapped
C17_Witness ==
    \E p, q \in Procs :
        /\ args[p].term # args[q].term
        /\ args[q].term \in overlapped[p]
        /\ args[p].term \in overlapped[q]
        /\ pc[p] = "done" /\ errored[p] = "none"
        /\ pc[q] = "done" /\ errored[q] = "none"
        /\ calls[p] = <<"select", "update">>
        /\ calls[q] = <<"select", "insert">>
        /\ snap[p] = snap[q]
        /\ Len(table) = 2

====
